---- MODULE Spec2Model ----
(***************************************************************************)
(* Packed-bit storage over arrays of u64 (bitm/src/bitvec.rs).             *)
(*                                                                         *)
(* A u64 is represented by the set of positions (0..63) of its one bits,   *)
(* so that every shift, mask and bitwise operator keeps its exact 64-bit   *)
(* width.  An array [u64] is a sequence of such words; word k of the Rust  *)
(* slice is element k+1 of the sequence.                                   *)
(***************************************************************************)
EXTENDS Integers, Sequences, FiniteSets, TLC

VARIABLES arr,      \* the word array the operation is applied to (self / dst)
          src,      \* the second, read-only array of conditionally_copy_bits
          pre,      \* arr as it was before the last call
          pc,       \* "ready": no call made yet; "done": a call has returned or aborted
          call,     \* the last call: its name, arguments, result, closure use
          iter,     \* the BitOnesIterator borrowed from arr, and what it has yielded
          log       \* the calls made so far, when several are made in a row

vars == <<arr, src, pre, pc, call, iter, log>>

\* ------------------------------------------------------------------------
\* u64 words
\* ------------------------------------------------------------------------
WordBits == 64

\* largest number of words of an array
MaxWords == 2

AllBits == 0..(WordBits - 1)

Zero == {}
Ones == AllBits
One == {0}

\* u64 operators; shift amounts are always < 64 where the code shifts
Shl(w, n) == {b + n : b \in {x \in w : x + n < WordBits}}
Shr(w, n) == {b - n : b \in {x \in w : x >= n}}
BitAnd(a, b) == a \cap b
BitOr(a, b) == a \cup b
BitXor(a, b) == (a \ b) \cup (b \ a)
BitNot(a) == AllBits \ a

count_ones(w) == Cardinality(w)
count_zeros(w) == WordBits - Cardinality(w)
trailing_zeros(w) == IF w = {} THEN WordBits ELSE CHOOSE b \in w : \A c \in w : b <= c

\* the value with the n lowest bits set, 0 <= n <= 64
n_lowest_bits(n) == {b \in AllBits : b < n}

\* smallest q with q*d >= n
ceiling_div(n, d) == CHOOSE q \in 0..n : q * d >= n /\ \A p \in 0..n : p * d >= n => q <= p

\* ------------------------------------------------------------------------
\* BitAccess for [u64]: every operation is given with the condition under
\* which one of its word accesses is out of bounds (the call then panics
\* before any word has been written).
\* ------------------------------------------------------------------------
Word(a, k) == a[k + 1]
SetWord(a, k, w) == [a EXCEPT ![k + 1] = w]
InBounds(a, k) == k < Len(a)

get_bit(a, bit_nr) == BitAnd(Word(a, bit_nr \div 64), Shl(One, bit_nr % 64)) # Zero

set_bit(a, bit_nr) ==
    SetWord(a, bit_nr \div 64, BitOr(Word(a, bit_nr \div 64), Shl(One, bit_nr % 64)))

\* clear_bit without the "!": the word is ANDed with the bit itself
clear_bit_not_negated(a, bit_nr) ==
    SetWord(a, bit_nr \div 64, BitAnd(Word(a, bit_nr \div 64), Shl(One, bit_nr % 64)))

clear_bit(a, bit_nr) ==
    SetWord(a, bit_nr \div 64, BitAnd(Word(a, bit_nr \div 64), BitNot(Shl(One, bit_nr % 64))))

bit_panics(a, bit_nr) == ~InBounds(a, bit_nr \div 64)

\* get_bits without "& v_mask" in the single-word case
get_bits_unmasked(a, begin, len) ==
    LET index_segment == begin \div 64
        offset == begin % 64
        w1 == Shr(Word(a, index_segment), offset)
        v_mask == n_lowest_bits(len)
    IN  IF offset + len > 64
        THEN LET shift == 64 - offset
             IN  BitOr(w1, Shl(BitAnd(Word(a, index_segment + 1), Shr(v_mask, shift)), shift))
        ELSE w1

get_bits(a, begin, len) ==
    LET index_segment == begin \div 64
        offset == begin % 64
        w1 == Shr(Word(a, index_segment), offset)
        v_mask == n_lowest_bits(len)
    IN  IF offset + len > 64
        THEN LET shift == 64 - offset
             IN  BitOr(w1, Shl(BitAnd(Word(a, index_segment + 1), Shr(v_mask, shift)), shift))
        ELSE BitAnd(w1, v_mask)

\* the word accesses of get_bits, set_bits, xor_bits, conditionally_change_bits
\* the word accesses with ">= 64" in place of "> 64": a range that ends at
\* a word's end reads the next word too
bits_panics_reaching_end(a, begin, len) ==
    LET index_segment == begin \div 64
        offset == begin % 64
    IN  \/ ~InBounds(a, index_segment)
        \/ offset + len >= 64 /\ ~InBounds(a, index_segment + 1)

bits_panics(a, begin, len) ==
    LET index_segment == begin \div 64
        offset == begin % 64
    IN  \/ ~InBounds(a, index_segment)
        \/ offset + len > 64 /\ ~InBounds(a, index_segment + 1)

\* set_bits without "&= !(v_mask >> shift)" on the second word
set_bits_second_not_cleared(a, begin, v, len) ==
    LET index_segment == begin \div 64
        offset == begin % 64
        v_mask == n_lowest_bits(len)
        a1 == IF offset + len > 64
              THEN LET shift == 64 - offset
                   IN  SetWord(a, index_segment + 1, BitOr(Word(a, index_segment + 1), Shr(v, shift)))
              ELSE a
        cleared1 == BitAnd(Word(a1, index_segment), BitNot(Shl(v_mask, offset)))
    IN  SetWord(a1, index_segment, BitOr(cleared1, Shl(v, offset)))

set_bits(a, begin, v, len) ==
    LET index_segment == begin \div 64
        offset == begin % 64
        v_mask == n_lowest_bits(len)
        a1 == IF offset + len > 64
              THEN LET shift == 64 - offset
                       cleared == BitAnd(Word(a, index_segment + 1), BitNot(Shr(v_mask, shift)))
                   IN  SetWord(a, index_segment + 1, BitOr(cleared, Shr(v, shift)))
              ELSE a
        cleared1 == BitAnd(Word(a1, index_segment), BitNot(Shl(v_mask, offset)))
    IN  SetWord(a1, index_segment, BitOr(cleared1, Shl(v, offset)))

\* xor_bits that masks v to its len lowest bits first
xor_bits_masked(a, begin, v, len) ==
    LET index_segment == begin \div 64
        offset == begin % 64
        m == BitAnd(v, n_lowest_bits(len))
        a1 == IF offset + len > 64
              THEN LET shift == 64 - offset
                   IN  SetWord(a, index_segment + 1,
                               BitXor(Word(a, index_segment + 1), Shr(m, shift)))
              ELSE a
    IN  SetWord(a1, index_segment, BitXor(Word(a1, index_segment), Shl(m, offset)))

\* xor_bits without the "^= v >> shift" on the second word
xor_bits_first_word_only(a, begin, v, len) ==
    LET index_segment == begin \div 64
        offset == begin % 64
    IN  SetWord(a, index_segment, BitXor(Word(a, index_segment), Shl(v, offset)))

xor_bits(a, begin, v, len) ==
    LET index_segment == begin \div 64
        offset == begin % 64
        a1 == IF offset + len > 64
              THEN LET shift == 64 - offset
                   IN  SetWord(a, index_segment + 1, BitXor(Word(a, index_segment + 1), Shr(v, shift)))
              ELSE a
    IN  SetWord(a1, index_segment, BitXor(Word(a1, index_segment), Shl(v, offset)))

get_fragment(a, index, v_size) == get_bits(a, index * v_size, v_size)
\* set_fragment writing at bit index instead of bit index * v_size
set_fragment_at_index(a, index, v, v_size) == set_bits(a, index, v, v_size)
set_fragment(a, index, v, v_size) == set_bits(a, index * v_size, v, v_size)
xor_fragment(a, index, v, v_size) == xor_bits(a, index * v_size, v, v_size)
fragment_panics(a, index, v_size) == bits_panics(a, index * v_size, v_size)

\* init_fragment with ^= in place of |=
init_fragment_xor(a, index, v, v_size) ==
    LET index_bit == index * v_size
        index_segment == index_bit \div 64
        offset == index_bit % 64
        a1 == IF offset + v_size > 64
              THEN SetWord(a, index_segment + 1,
                           BitXor(Word(a, index_segment + 1), Shr(v, 64 - offset)))
              ELSE a
    IN  SetWord(a1, index_segment, BitXor(Word(a1, index_segment), Shl(v, offset)))

\* init_fragment of [u64]; the debug_assert is init_fragment_asserts
init_fragment(a, index, v, v_size) ==
    LET index_bit == index * v_size
        index_segment == index_bit \div 64
        offset == index_bit % 64
        a1 == IF offset + v_size > 64
              THEN SetWord(a, index_segment + 1,
                           BitOr(Word(a, index_segment + 1), Shr(v, 64 - offset)))
              ELSE a
    IN  SetWord(a1, index_segment, BitOr(Word(a1, index_segment), Shl(v, offset)))

\* debug_assert!({let f = self.get_fragment(index, v_size); f == 0 || f == v})
init_fragment_asserts(a, index, v, v_size) ==
    LET f == get_fragment(a, index, v_size) IN f = Zero \/ f = v

\* swap_fragments reading v1 only after fragment index1 has been written
swap_fragments_late_read(a, index1, index2, v_size) ==
    LET a1 == set_fragment(a, index1, get_fragment(a, index2, v_size), v_size)
        v1 == get_fragment(a1, index1, v_size)
    IN  set_fragment(a1, index2, v1, v_size)

swap_fragments(a, index1, index2, v_size) ==
    LET v1 == get_fragment(a, index1, v_size)
        a1 == set_fragment(a, index1, get_fragment(a, index2, v_size), v_size)
    IN  set_fragment(a1, index2, v1, v_size)

swap_panics(a, index1, index2, v_size) ==
    fragment_panics(a, index1, v_size) \/ fragment_panics(a, index2, v_size)

\* conditionally_change_bits writing whatever the closure answers
conditionally_change_bits_always_writes(a, new_value, begin, v_size) ==
    LET r == get_bits(a, begin, v_size)
    IN  [a |-> set_bits(a, begin, new_value.v, v_size), ret |-> r, fn_calls |-> 1, fn_arg1 |-> r]

\* The closure new_value is called once, with r; new_value.some and
\* new_value.v are what that call answers (None, or Some(v)).
conditionally_change_bits(a, new_value, begin, v_size) ==
    LET index_segment == begin \div 64
        offset == begin % 64
        w1 == Shr(Word(a, index_segment), offset)
        end_bit == offset + v_size
        v_mask == n_lowest_bits(v_size)
        r == IF end_bit > 64
             THEN LET shift == 64 - offset
                  IN  BitOr(w1, Shl(BitAnd(Word(a, index_segment + 1), Shr(v_mask, shift)), shift))
             ELSE BitAnd(w1, v_mask)
        v == new_value.v
        a1 == IF end_bit > 64
              THEN LET shift == 64 - offset
                       cleared == BitAnd(Word(a, index_segment + 1), BitNot(Shr(v_mask, shift)))
                   IN  SetWord(a, index_segment + 1, BitOr(cleared, Shr(v, shift)))
              ELSE a
        cleared1 == BitAnd(Word(a1, index_segment), BitNot(Shl(v_mask, offset)))
        a2 == SetWord(a1, index_segment, BitOr(cleared1, Shl(v, offset)))
    IN  [a |-> IF new_value.some THEN a2 ELSE a, ret |-> r, fn_calls |-> 1, fn_arg1 |-> r]

conditionally_change_fragment(a, new_value, index, v_size) ==
    conditionally_change_bits(a, new_value, index * v_size, v_size)

\* conditionally_copy_bits without "src_w1 &= v_mask" in the single-word case
conditionally_copy_bits_unmasked(a, s, predicate, begin, v_size) ==
    LET index_segment == begin \div 64
        offset == begin % 64
        self_w1 == Shr(Word(a, index_segment), offset)
        src_w1 == Shr(Word(s, index_segment), offset)
        end_bit == offset + v_size
        v_mask == n_lowest_bits(v_size)
    IN  IF end_bit > 64
        THEN LET shift == 64 - offset
                 w2_mask == Shr(v_mask, shift)
                 self_bits == BitOr(self_w1, Shl(BitAnd(Word(a, index_segment + 1), w2_mask), shift))
                 src_w2 == BitAnd(Word(s, index_segment + 1), w2_mask)
                 a1 == SetWord(a, index_segment + 1,
                               BitOr(BitAnd(Word(a, index_segment + 1), BitNot(w2_mask)), src_w2))
                 a2 == SetWord(a1, index_segment,
                               BitOr(BitAnd(Word(a1, index_segment), BitNot(Shl(v_mask, offset))),
                                     Shl(src_w1, offset)))
             IN  [a |-> IF predicate THEN a2 ELSE a, s |-> s, fn_calls |-> 1,
                  fn_arg1 |-> self_bits, fn_arg2 |-> BitOr(src_w1, Shl(src_w2, shift))]
        ELSE LET a1 == SetWord(a, index_segment,
                               BitOr(BitAnd(Word(a, index_segment), BitNot(Shl(v_mask, offset))),
                                     Shl(src_w1, offset)))
             IN  [a |-> IF predicate THEN a1 ELSE a, s |-> s, fn_calls |-> 1,
                  fn_arg1 |-> BitAnd(self_w1, v_mask), fn_arg2 |-> BitAnd(src_w1, v_mask)]

\* The closure predicate is called once, with the two values; predicate is
\* what that call answers.  s is src, which is only read.
conditionally_copy_bits(a, s, predicate, begin, v_size) ==
    LET index_segment == begin \div 64
        offset == begin % 64
        self_w1 == Shr(Word(a, index_segment), offset)
        src_w1 == Shr(Word(s, index_segment), offset)
        end_bit == offset + v_size
        v_mask == n_lowest_bits(v_size)
    IN  IF end_bit > 64
        THEN LET shift == 64 - offset
                 w2_mask == Shr(v_mask, shift)
                 self_bits == BitOr(self_w1, Shl(BitAnd(Word(a, index_segment + 1), w2_mask), shift))
                 src_w2 == BitAnd(Word(s, index_segment + 1), w2_mask)
                 a1 == SetWord(a, index_segment + 1,
                               BitOr(BitAnd(Word(a, index_segment + 1), BitNot(w2_mask)), src_w2))
                 a2 == SetWord(a1, index_segment,
                               BitOr(BitAnd(Word(a1, index_segment), BitNot(Shl(v_mask, offset))),
                                     Shl(src_w1, offset)))
             IN  [a |-> IF predicate THEN a2 ELSE a, s |-> s, fn_calls |-> 1,
                  fn_arg1 |-> self_bits, fn_arg2 |-> BitOr(src_w1, Shl(src_w2, shift))]
        ELSE LET src_w1m == BitAnd(src_w1, v_mask)
                 a1 == SetWord(a, index_segment,
                               BitOr(BitAnd(Word(a, index_segment), BitNot(Shl(v_mask, offset))),
                                     Shl(src_w1m, offset)))
             IN  [a |-> IF predicate THEN a1 ELSE a, s |-> s, fn_calls |-> 1,
                  fn_arg1 |-> BitAnd(self_w1, v_mask), fn_arg2 |-> src_w1m]

conditionally_copy_fragment(a, s, predicate, index, v_size) ==
    conditionally_copy_bits(a, s, predicate, index * v_size, v_size)

\* The provided methods of the trait BitAccess that [u64] overrides, over the
\* get_bits and set_bits of [u64].
conditionally_change_bits_provided(a, new_value, begin, v_size) ==
    LET old == get_bits(a, begin, v_size)
    IN  [a |-> IF new_value.some THEN set_bits(a, begin, new_value.v, v_size) ELSE a,
         ret |-> old, fn_calls |-> 1, fn_arg1 |-> old]

\* the closure given to conditionally_change_bits calls predicate once and
\* answers Some(src_bits) when it is true
conditionally_copy_bits_provided(a, s, predicate, begin, v_size) ==
    LET src_bits == get_bits(s, begin, v_size)
        r == conditionally_change_bits_provided(a, [some |-> predicate, v |-> src_bits],
                                                begin, v_size)
    IN  [a |-> r.a, s |-> s, fn_calls |-> r.fn_calls,
         fn_arg1 |-> r.fn_arg1, fn_arg2 |-> src_bits]

\* the word accesses of conditionally_copy_bits, in self and in src
copy_panics(a, s, begin, v_size) == bits_panics(a, begin, v_size) \/ bits_panics(s, begin, v_size)

\* ------------------------------------------------------------------------
\* Counting and the iterator over the ones
\* ------------------------------------------------------------------------
RECURSIVE count_bit_zeros(_)
count_bit_zeros(a) == IF a = << >> THEN 0 ELSE count_zeros(Head(a)) + count_bit_zeros(Tail(a))

RECURSIVE count_bit_ones(_)
count_bit_ones(a) == IF a = << >> THEN 0 ELSE count_ones(Head(a)) + count_bit_ones(Tail(a))

\* segment_iter is the slice std::slice::Iter still has to visit
BitOnesIterator_new(slice) ==
    [segment_iter |-> IF slice = << >> THEN << >> ELSE Tail(slice),
     first_segment_bit |-> 0,
     current_segment |-> IF slice = << >> THEN Zero ELSE Head(slice)]

\* next() without "first_segment_bit += 64"
RECURSIVE BitOnesIterator_next_same_base(_)
BitOnesIterator_next_same_base(it) ==
    IF it.current_segment = Zero
    THEN IF it.segment_iter = << >>
         THEN [it |-> it, some |-> FALSE, item |-> 0]
         ELSE BitOnesIterator_next_same_base([segment_iter |-> Tail(it.segment_iter),
                                              first_segment_bit |-> it.first_segment_bit,
                                              current_segment |-> Head(it.segment_iter)])
    ELSE LET result == trailing_zeros(it.current_segment)
         IN  [it |-> [it EXCEPT !.current_segment = BitXor(it.current_segment, Shl(One, result))],
              some |-> TRUE, item |-> it.first_segment_bit + result]

\* next(): the iterator after the call, and the Option it returns
RECURSIVE BitOnesIterator_next(_)
BitOnesIterator_next(it) ==
    IF it.current_segment = Zero
    THEN IF it.segment_iter = << >>
         THEN [it |-> it, some |-> FALSE, item |-> 0]
         ELSE BitOnesIterator_next([segment_iter |-> Tail(it.segment_iter),
                                    first_segment_bit |-> it.first_segment_bit + 64,
                                    current_segment |-> Head(it.segment_iter)])
    ELSE LET result == trailing_zeros(it.current_segment)
         IN  [it |-> [it EXCEPT !.current_segment = BitXor(it.current_segment, Shl(One, result))],
              some |-> TRUE, item |-> it.first_segment_bit + result]

\* len() counting only the words not yet visited
BitOnesIterator_len_unvisited(it) == count_bit_ones(it.segment_iter)

BitOnesIterator_len(it) == count_ones(it.current_segment) + count_bit_ones(it.segment_iter)

bit_ones(a) == BitOnesIterator_new(a)

\* ------------------------------------------------------------------------
\* BitVec for Box<[u64]>
\* ------------------------------------------------------------------------
with_64bit_segments(segments_value, segments_len) == [k \in 1..segments_len |-> segments_value]
with_zeroed_64bit_segments(segments_len) == with_64bit_segments(Zero, segments_len)
with_filled_64bit_segments(segments_len) == with_64bit_segments(Ones, segments_len)
with_zeroed_bits(bit_len) == with_zeroed_64bit_segments(ceiling_div(bit_len, 64))
with_filled_bits(bit_len) == with_filled_64bit_segments(ceiling_div(bit_len, 64))

\* result after the first n rounds of
\* for index in 0..words_count { result.init_fragment(index, word, word_len_bits); }
RECURSIVE with_bitwords_loop(_, _, _, _)
with_bitwords_loop(result, n, word, word_len_bits) ==
    IF n = 0 THEN result
    ELSE init_fragment(with_bitwords_loop(result, n - 1, word, word_len_bits),
                       n - 1, word, word_len_bits)

\* with_bitwords stopping one round early
with_bitwords_one_short(word, word_len_bits, words_count) ==
    with_bitwords_loop(with_zeroed_bits(words_count * word_len_bits),
                       IF words_count = 0 THEN 0 ELSE words_count - 1,
                       word, word_len_bits)

with_bitwords(word, word_len_bits, words_count) ==
    with_bitwords_loop(with_zeroed_bits(words_count * word_len_bits), words_count,
                       word, word_len_bits)

\* ------------------------------------------------------------------------
\* Inputs
\* ------------------------------------------------------------------------
\* an irregular word whose two lowest and three highest bits are zero
Mixed == {b \in 2..60 : b % 3 = 0 \/ b % 5 = 1}
WordPatterns == {Zero, Ones, Mixed}

\* an irregular value with low bits 0b1011
Odd == {b \in AllBits : b % 3 = 0 \/ b % 5 = 1}
ValuePatterns == {Zero, Ones, Odd}

RECURSIVE ArraysOfLen(_)
ArraysOfLen(n) ==
    IF n = 0 THEN {<< >>}
    ELSE {Append(a, w) : a \in ArraysOfLen(n - 1), w \in WordPatterns}

\* one array of MaxWords + 2 words, so that two fragments can lie in words
\* that are not neighbours and can straddle two words each
LongArray ==
    [k \in 1..(MaxWords + 2) |->
        IF k % 3 = 1 THEN Mixed ELSE IF k % 3 = 2 THEN Ones ELSE Zero]

Arrays == UNION {ArraysOfLen(n) : n \in 0..MaxWords} \cup {LongArray}

Offsets == {0, 1, 31, 34, 61, 63}
Lens == {0, 1, 3, 30, 33, 63, 64}

\* bit positions in every word of a, and the first two after the last word
Begins(a) == {64 * s + o : s \in 0..(Len(a) - 1), o \in Offsets}
                \cup {64 * Len(a), 64 * Len(a) + 1}

\* values of at most len bits, and values wider than len bits
Values(len) == {BitAnd(p, n_lowest_bits(len)) : p \in ValuePatterns} \cup ValuePatterns

\* the arrays given as src: of the length of a, with one pattern in all
\* words or Ones and Mixed in turn; and the empty one
Sources(a) ==
    {[k \in 1..Len(a) |-> p] : p \in WordPatterns}
        \cup {[k \in 1..Len(a) |-> IF k % 2 = 1 THEN Ones ELSE Mixed],
              [k \in 1..Len(a) |-> IF k % 2 = 1 THEN Mixed ELSE Ones],
              << >>}

\* fragment indices: the first ones, and those whose fragment reaches or
\* crosses the end of a word (of a, or of the word after the last one)
Indexes(a, v_size) ==
    {i \in 0..(64 * (Len(a) + 1)) :
        /\ i * v_size < 64 * (Len(a) + 1)
        /\ i <= 2 \/ (i * v_size) \div 64 # (i * v_size + v_size) \div 64}

\* what a call of the closure new_value answers
NewValues(len) == {[some |-> FALSE, v |-> Zero]} \cup {[some |-> TRUE, v |-> v] : v \in Values(len)}

\* it is the BitOnesIterator; yielded lists the items returned in Some so
\* far, nones counts the calls of next() that returned None (up to MaxNones)
NoIter == [live |-> FALSE, it |-> BitOnesIterator_new(<< >>), yielded |-> << >>,
           nones |-> 0, len |-> 0]

\* how many calls of next() after the end are followed
MaxNones == 2

\* begin is the bit index of a single-bit call, the begin of a range call and
\* the index of a fragment call; some tells whether the closure answered
\* Some(v) or true; src is the array passed as src; count is an integer
\* argument or result
NoCall == [name |-> "", begin |-> 0, len |-> 0, v |-> Zero, index2 |-> 0,
           ret |-> Zero, panicked |-> FALSE, debug |-> FALSE, some |-> FALSE,
           fn_calls |-> 0, fn_arg1 |-> Zero, fn_arg2 |-> Zero, count |-> 0, src |-> << >>]

Init ==
    /\ arr \in Arrays
    /\ src = << >>
    /\ pre = arr
    /\ pc = "ready"
    /\ call = NoCall
    /\ iter = NoIter
    /\ log = << >>

\* a call that returned with the array a and the record c
Return(a, c) ==
    /\ pc' = "done"
    /\ pre' = arr
    /\ arr' = a
    /\ call' = c
    /\ UNCHANGED <<iter, log>>

\* a call that aborted on an out-of-bounds word access
Abort(c) == Return(arr, [c EXCEPT !.panicked = TRUE])

\* the closure's call and the returned value, as r reports them
Closure(c, r) == [c EXCEPT !.fn_calls = r.fn_calls, !.fn_arg1 = r.fn_arg1]

GetBit ==
    /\ pc = "ready"
    /\ UNCHANGED src
    /\ \E bit_nr \in Begins(arr) :
        LET c == [NoCall EXCEPT !.name = "get_bit", !.begin = bit_nr]
        IN  IF bit_panics(arr, bit_nr) THEN Abort(c)
            ELSE Return(arr, [c EXCEPT !.ret = IF get_bit(arr, bit_nr) THEN One ELSE Zero])

SetBit ==
    /\ pc = "ready"
    /\ UNCHANGED src
    /\ \E bit_nr \in Begins(arr) :
        LET c == [NoCall EXCEPT !.name = "set_bit", !.begin = bit_nr]
        IN  IF bit_panics(arr, bit_nr) THEN Abort(c)
            ELSE Return(set_bit(arr, bit_nr), c)

ClearBit ==
    /\ pc = "ready"
    /\ UNCHANGED src
    /\ \E bit_nr \in Begins(arr) :
        LET c == [NoCall EXCEPT !.name = "clear_bit", !.begin = bit_nr]
        IN  IF bit_panics(arr, bit_nr) THEN Abort(c)
            ELSE Return(clear_bit(arr, bit_nr), c)

GetBits ==
    /\ pc = "ready"
    /\ UNCHANGED src
    /\ \E begin \in Begins(arr), len \in Lens :
        LET c == [NoCall EXCEPT !.name = "get_bits", !.begin = begin, !.len = len]
        IN  IF bits_panics(arr, begin, len) THEN Abort(c)
            ELSE Return(arr, [c EXCEPT !.ret = get_bits(arr, begin, len)])

SetBits ==
    /\ pc = "ready"
    /\ UNCHANGED src
    /\ \E begin \in Begins(arr), len \in Lens :
        \E v \in Values(len) :
            LET c == [NoCall EXCEPT !.name = "set_bits", !.begin = begin, !.len = len, !.v = v]
            IN  IF bits_panics(arr, begin, len) THEN Abort(c)
                ELSE Return(set_bits(arr, begin, v, len), c)

XorBits ==
    /\ pc = "ready"
    /\ UNCHANGED src
    /\ \E begin \in Begins(arr), len \in Lens :
        \E v \in Values(len) :
            LET c == [NoCall EXCEPT !.name = "xor_bits", !.begin = begin, !.len = len, !.v = v]
            IN  IF bits_panics(arr, begin, len) THEN Abort(c)
                ELSE Return(xor_bits(arr, begin, v, len), c)

GetFragment ==
    /\ pc = "ready"
    /\ UNCHANGED src
    /\ \E v_size \in Lens :
        \E index \in Indexes(arr, v_size) :
            LET c == [NoCall EXCEPT !.name = "get_fragment", !.begin = index, !.len = v_size]
            IN  IF fragment_panics(arr, index, v_size) THEN Abort(c)
                ELSE Return(arr, [c EXCEPT !.ret = get_fragment(arr, index, v_size)])

SetFragment ==
    /\ pc = "ready"
    /\ UNCHANGED src
    /\ \E v_size \in Lens :
        \E index \in Indexes(arr, v_size), v \in Values(v_size) :
            LET c == [NoCall EXCEPT !.name = "set_fragment", !.begin = index, !.len = v_size, !.v = v]
            IN  IF fragment_panics(arr, index, v_size) THEN Abort(c)
                ELSE Return(set_fragment(arr, index, v, v_size), c)

XorFragment ==
    /\ pc = "ready"
    /\ UNCHANGED src
    /\ \E v_size \in Lens :
        \E index \in Indexes(arr, v_size), v \in Values(v_size) :
            LET c == [NoCall EXCEPT !.name = "xor_fragment", !.begin = index, !.len = v_size, !.v = v]
            IN  IF fragment_panics(arr, index, v_size) THEN Abort(c)
                ELSE Return(xor_fragment(arr, index, v, v_size), c)

\* A build with debug assertions evaluates the debug_assert first (its
\* get_fragment may itself be out of bounds); a release build does not.
InitFragment ==
    /\ pc = "ready"
    /\ UNCHANGED src
    /\ \E v_size \in Lens, debug \in BOOLEAN :
        \E index \in Indexes(arr, v_size), v \in Values(v_size) :
            LET c == [NoCall EXCEPT !.name = "init_fragment", !.begin = index, !.len = v_size,
                                    !.v = v, !.debug = debug]
            IN  IF fragment_panics(arr, index, v_size) THEN Abort(c)
                ELSE IF debug /\ ~init_fragment_asserts(arr, index, v, v_size) THEN Abort(c)
                ELSE Return(init_fragment(arr, index, v, v_size), c)

SwapFragments ==
    /\ pc = "ready"
    /\ UNCHANGED src
    /\ \E v_size \in Lens :
        \E index1 \in Indexes(arr, v_size), index2 \in Indexes(arr, v_size) :
            LET c == [NoCall EXCEPT !.name = "swap_fragments", !.begin = index1,
                                    !.index2 = index2, !.len = v_size]
            IN  IF swap_panics(arr, index1, index2, v_size) THEN Abort(c)
                ELSE Return(swap_fragments(arr, index1, index2, v_size), c)

ConditionallyChangeBits ==
    /\ pc = "ready"
    /\ UNCHANGED src
    /\ \E begin \in Begins(arr), v_size \in Lens :
        \E new_value \in NewValues(v_size) :
            LET c == [NoCall EXCEPT !.name = "conditionally_change_bits", !.begin = begin,
                                    !.len = v_size, !.v = new_value.v, !.some = new_value.some]
                r == conditionally_change_bits(arr, new_value, begin, v_size)
            IN  IF bits_panics(arr, begin, v_size) THEN Abort(c)
                ELSE Return(r.a, [Closure(c, r) EXCEPT !.ret = r.ret])

ConditionallyChangeFragment ==
    /\ pc = "ready"
    /\ UNCHANGED src
    /\ \E v_size \in Lens :
        \E index \in Indexes(arr, v_size), new_value \in NewValues(v_size) :
            LET c == [NoCall EXCEPT !.name = "conditionally_change_fragment", !.begin = index,
                                    !.len = v_size, !.v = new_value.v, !.some = new_value.some]
                r == conditionally_change_fragment(arr, new_value, index, v_size)
            IN  IF fragment_panics(arr, index, v_size) THEN Abort(c)
                ELSE Return(r.a, [Closure(c, r) EXCEPT !.ret = r.ret])

ConditionallyCopyBits ==
    /\ pc = "ready"
    /\ \E s \in Sources(arr), begin \in Begins(arr), v_size \in Lens, predicate \in BOOLEAN :
        LET c == [NoCall EXCEPT !.name = "conditionally_copy_bits", !.begin = begin,
                                !.len = v_size, !.some = predicate, !.src = s]
            r == conditionally_copy_bits(arr, s, predicate, begin, v_size)
        IN  IF copy_panics(arr, s, begin, v_size) THEN src' = s /\ Abort(c)
            ELSE src' = r.s /\ Return(r.a, [Closure(c, r) EXCEPT !.fn_arg2 = r.fn_arg2])

ConditionallyCopyFragment ==
    /\ pc = "ready"
    /\ \E s \in Sources(arr), v_size \in Lens, predicate \in BOOLEAN :
        \E index \in Indexes(arr, v_size) :
            LET c == [NoCall EXCEPT !.name = "conditionally_copy_fragment", !.begin = index,
                                    !.len = v_size, !.some = predicate, !.src = s]
                r == conditionally_copy_fragment(arr, s, predicate, index, v_size)
            IN  IF copy_panics(arr, s, index * v_size, v_size) THEN src' = s /\ Abort(c)
                ELSE src' = r.s /\ Return(r.a, [Closure(c, r) EXCEPT !.fn_arg2 = r.fn_arg2])

Next ==
    \/ GetBit
    \/ SetBit
    \/ ClearBit
    \/ GetBits
    \/ SetBits
    \/ XorBits
    \/ GetFragment
    \/ SetFragment
    \/ XorFragment
    \/ InitFragment
    \/ SwapFragments
    \/ ConditionallyChangeBits
    \/ ConditionallyChangeFragment
    \/ ConditionallyCopyBits
    \/ ConditionallyCopyFragment

Spec == Init /\ [][Next]_vars

\* ------------------------------------------------------------------------
\* Counting and iterating: the array is borrowed by the iterator and no
\* operation that writes it can run
\* ------------------------------------------------------------------------
CountBitOnes ==
    /\ pc = "ready"
    /\ UNCHANGED src
    /\ Return(arr, [NoCall EXCEPT !.name = "count_bit_ones", !.count = count_bit_ones(arr)])

CountBitZeros ==
    /\ pc = "ready"
    /\ UNCHANGED src
    /\ Return(arr, [NoCall EXCEPT !.name = "count_bit_zeros", !.count = count_bit_zeros(arr)])

BitOnes ==
    /\ pc = "ready"
    /\ pc' = "iterating"
    /\ iter' = [NoIter EXCEPT !.live = TRUE, !.it = bit_ones(arr),
                              !.len = BitOnesIterator_len(bit_ones(arr))]
    /\ call' = [NoCall EXCEPT !.name = "bit_ones"]
    /\ UNCHANGED <<arr, src, pre, log>>

IterNext ==
    /\ pc = "iterating"
    /\ iter.nones < MaxNones
    /\ LET r == BitOnesIterator_next(iter.it)
       IN  /\ iter' = [iter EXCEPT !.it = r.it,
                                   !.yielded = IF r.some THEN Append(@, r.item) ELSE @,
                                   !.nones = IF r.some THEN @ ELSE @ + 1,
                                   !.len = BitOnesIterator_len(r.it)]
           /\ call' = [NoCall EXCEPT !.name = "next", !.some = r.some, !.count = r.item]
    /\ UNCHANGED <<arr, src, pre, pc, log>>

NextIter ==
    \/ CountBitOnes
    \/ CountBitZeros
    \/ BitOnes
    \/ IterNext

SpecIter == Init /\ [][NextIter]_vars

\* ------------------------------------------------------------------------
\* Construction: no array yet, one constructor is called
\* ------------------------------------------------------------------------
\* Calls made one after the other on one array, as tests::bits does:
\* set_bit, clear_bit and xor_bits on an array of filled segments. A call
\* that aborts ends the run.
\* ------------------------------------------------------------------------
\* most calls made in a row
MaxCalls == 3

BitNrs == {3, 72, 73, 74}
XorBegins == {62, 72}
XorValues == {{0, 1}, {0, 2}}

InitBits ==
    /\ arr \in {with_filled_64bit_segments(n) : n \in 1..MaxWords}
    /\ src = << >>
    /\ pre = arr
    /\ pc = "ready"
    /\ call = NoCall
    /\ iter = NoIter
    /\ log = << >>

\* a call that returned with the array a (or aborted), the next call follows
Sequel(a, c) ==
    /\ pc' = IF c.panicked THEN "done" ELSE "ready"
    /\ pre' = arr
    /\ arr' = a
    /\ call' = c
    /\ log' = Append(log, c)
    /\ UNCHANGED <<src, iter>>

BitsSetBit ==
    /\ pc = "ready"
    /\ Len(log) < MaxCalls
    /\ \E bit_nr \in BitNrs :
        LET c == [NoCall EXCEPT !.name = "set_bit", !.begin = bit_nr]
        IN  IF bit_panics(arr, bit_nr) THEN Sequel(arr, [c EXCEPT !.panicked = TRUE])
            ELSE Sequel(set_bit(arr, bit_nr), c)

BitsClearBit ==
    /\ pc = "ready"
    /\ Len(log) < MaxCalls
    /\ \E bit_nr \in BitNrs :
        LET c == [NoCall EXCEPT !.name = "clear_bit", !.begin = bit_nr]
        IN  IF bit_panics(arr, bit_nr) THEN Sequel(arr, [c EXCEPT !.panicked = TRUE])
            ELSE Sequel(clear_bit(arr, bit_nr), c)

BitsXorBits ==
    /\ pc = "ready"
    /\ Len(log) < MaxCalls
    /\ \E begin \in XorBegins, v \in XorValues :
        LET c == [NoCall EXCEPT !.name = "xor_bits", !.begin = begin, !.len = 3, !.v = v]
        IN  IF bits_panics(arr, begin, 3) THEN Sequel(arr, [c EXCEPT !.panicked = TRUE])
            ELSE Sequel(xor_bits(arr, begin, v, 3), c)

NextBits ==
    \/ BitsSetBit
    \/ BitsClearBit
    \/ BitsXorBits

SpecBits == InitBits /\ [][NextBits]_vars

\* ------------------------------------------------------------------------
MaxBitLen == 64 * MaxWords

\* largest words_count given to with_bitwords
MaxCount == 24

InitNew ==
    /\ arr = << >>
    /\ src = << >>
    /\ pre = << >>
    /\ pc = "ready"
    /\ call = NoCall
    /\ iter = NoIter
    /\ log = << >>

WithZeroedBits ==
    /\ pc = "ready"
    /\ UNCHANGED src
    /\ \E bit_len \in 0..MaxBitLen :
        Return(with_zeroed_bits(bit_len),
               [NoCall EXCEPT !.name = "with_zeroed_bits", !.count = bit_len])

WithFilledBits ==
    /\ pc = "ready"
    /\ UNCHANGED src
    /\ \E bit_len \in 0..MaxBitLen :
        Return(with_filled_bits(bit_len),
               [NoCall EXCEPT !.name = "with_filled_bits", !.count = bit_len])

\* word fits in word_len_bits bits, so that the debug_assert of
\* init_fragment holds at every index
WithBitwords ==
    /\ pc = "ready"
    /\ UNCHANGED src
    /\ \E word_len_bits \in 1..64, words_count \in 0..MaxCount, p \in ValuePatterns :
        /\ words_count * word_len_bits <= MaxBitLen
        /\ LET word == BitAnd(p, n_lowest_bits(word_len_bits))
           IN  Return(with_bitwords(word, word_len_bits, words_count),
                      [NoCall EXCEPT !.name = "with_bitwords", !.v = word,
                                     !.len = word_len_bits, !.count = words_count])

NextNew ==
    \/ WithZeroedBits
    \/ WithFilledBits
    \/ WithBitwords

SpecNew == InitNew /\ [][NextNew]_vars

\* ------------------------------------------------------------------------
\* Properties
\* ------------------------------------------------------------------------
\* bit i of the array, read off the representation
Bit(a, i) == (i % 64) \in a[(i \div 64) + 1]
NBits(a) == 64 * Len(a)

\* the value held by bits [begin, begin+len), bit k of it being bit begin+k
RangeValue(a, begin, len) == {k \in 0..(len - 1) : Bit(a, begin + k)}

\* a and b agree on every bit outside [begin, begin+len)
SameOutside(a, b, begin, len) ==
    /\ Len(a) = Len(b)
    /\ \A i \in 0..(NBits(a) - 1) : (i < begin \/ i >= begin + len) => Bit(a, i) = Bit(b, i)

\* v < 2^len
Fits(v, len) == \A b \in v : b < len

Returned(name) == pc = "done" /\ call.name = name /\ ~call.panicked
Straddles(begin, len) == (begin % 64) + len > 64
ValidRange(a, begin, len) == begin < NBits(a) /\ begin + len <= NBits(a)

C3_ConditionallyChangeOld ==
    Returned("conditionally_change_bits")
        => /\ call.fn_calls = 1
           /\ call.fn_arg1 = get_bits(pre, call.begin, call.len)
           /\ call.fn_arg1 = RangeValue(pre, call.begin, call.len)
           /\ call.ret = call.fn_arg1
           /\ ~call.some => arr = pre

C3_Witness ==
    /\ Returned("conditionally_change_bits")
    /\ ~call.some
    /\ Straddles(call.begin, call.len)
    /\ call.ret \notin {Zero, n_lowest_bits(call.len)}

C3_WitnessSome ==
    /\ Returned("conditionally_change_bits")
    /\ call.some
    /\ call.ret # Zero
    /\ arr # pre

\* C4 (as claimed): a written value is masked to len bits: after set_bits(begin,
\* v, len), or conditionally_change_bits whose transform answers Some(v), for
\* any 64-bit v, get_bits(begin, len) is v mod 2^len and no bit outside
\* [begin, begin+len) has changed.
C4_WrittenValueMasked ==
    (Returned("set_bits") \/ (Returned("conditionally_change_bits") /\ call.some))
        => /\ get_bits(arr, call.begin, call.len) = BitAnd(call.v, n_lowest_bits(call.len))
           /\ SameOutside(pre, arr, call.begin, call.len)

\* C5: conditionally_copy_bits (the override of [u64] and the provided
\* method of the trait) evaluates the predicate exactly once, on the
\* values the range has in dst and in src before the call; on false dst is
\* unchanged; on true dst's range equals src's range and every other bit of
\* dst is unchanged; src is not modified.
C5_ConditionallyCopy ==
    Returned("conditionally_copy_bits")
        => /\ call.fn_calls = 1
           /\ call.fn_arg1 = RangeValue(pre, call.begin, call.len)
           /\ call.fn_arg2 = RangeValue(call.src, call.begin, call.len)
           /\ ~call.some => arr = pre
           /\ call.some => /\ get_bits(arr, call.begin, call.len) = get_bits(src, call.begin, call.len)
                           /\ RangeValue(arr, call.begin, call.len)
                                = RangeValue(call.src, call.begin, call.len)
                           /\ SameOutside(pre, arr, call.begin, call.len)
           /\ src = call.src
           \* the provided method of the trait does the same
           /\ LET r == conditionally_copy_bits_provided(pre, call.src, call.some,
                                                        call.begin, call.len)
              IN  r.a = arr /\ r.s = src /\ r.fn_calls = 1
                  /\ r.fn_arg1 = call.fn_arg1 /\ r.fn_arg2 = call.fn_arg2

C5_Witness ==
    /\ Returned("conditionally_copy_bits")
    /\ call.some
    /\ Straddles(call.begin, call.len)
    /\ call.fn_arg1 # call.fn_arg2
    /\ call.fn_arg2 \notin {Zero, n_lowest_bits(call.len)}
    /\ arr # pre
    /\ arr # src

\* the indices of the ones of a
OnesOf(a) == {i \in 0..(NBits(a) - 1) : Bit(a, i)}

Range(f) == {f[k] : k \in DOMAIN f}

\* C6: the calls of next() on a fresh bit_ones() yield the indices i with
\* get_bit(i), each once, in strictly increasing order, and then None; so the
\* number of items is count_bit_ones, count_bit_ones + count_bit_zeros is
\* 64 * word_count, and the array is not modified.
C6_IteratorYieldsOnes ==
    /\ count_bit_ones(arr) + count_bit_zeros(arr) = 64 * Len(arr)
    /\ arr = pre
    /\ iter.live
        => /\ \A k \in 1..(Len(iter.yielded) - 1) : iter.yielded[k] < iter.yielded[k + 1]
           /\ \A k \in 1..Len(iter.yielded) :
                /\ iter.yielded[k] < NBits(arr)
                /\ get_bit(arr, iter.yielded[k])
           \* nothing is skipped: the ones below the last item have all been yielded
           /\ \A i \in OnesOf(arr) :
                (iter.yielded # << >> /\ i <= iter.yielded[Len(iter.yielded)])
                    => i \in Range(iter.yielded)
           /\ iter.nones > 0
                => /\ Range(iter.yielded) = OnesOf(arr)
                   /\ Len(iter.yielded) = count_bit_ones(arr)
           /\ Len(iter.yielded) = count_bit_ones(arr)
                => ~BitOnesIterator_next(iter.it).some

C6_Witness ==
    /\ iter.live
    /\ iter.nones > 0
    /\ Len(arr) = 2
    /\ \E k \in 1..Len(iter.yielded) : iter.yielded[k] < 64
    /\ \E k \in 1..Len(iter.yielded) : iter.yielded[k] >= 64
    /\ count_bit_zeros(arr) > 0

C6_WitnessEmpty ==
    /\ iter.live
    /\ iter.nones > 0
    /\ arr = << >>

\* C7: in every state of the iterator len() is the number of items the
\* remaining calls of next() yield (count_bit_ones minus the number already
\* yielded: next() yields an item exactly when len() > 0 and the item takes
\* one off len()); once next() has returned None it returns None again and
\* len() stays 0.
C7_ExactLen ==
    /\ [](iter.live
            => /\ iter.len = BitOnesIterator_len(iter.it)
               /\ iter.len = count_bit_ones(arr) - Len(iter.yielded)
               /\ BitOnesIterator_next(iter.it).some <=> iter.len > 0
               /\ iter.nones > 0
                    => /\ iter.len = 0
                       /\ call.name = "next" /\ ~call.some)
    /\ [][(iter.live /\ iter'.live)
            => /\ call'.some => iter.len > 0 /\ iter'.len = iter.len - 1
               /\ ~call'.some => iter.len = 0 /\ iter'.len = 0
               /\ iter.nones > 0 => ~call'.some /\ iter'.yielded = iter.yielded]_vars

C7_Witness ==
    /\ iter.live
    /\ iter.yielded # << >>
    /\ iter.len > 0
    /\ iter.it.segment_iter # << >>
    /\ iter.it.current_segment # Zero

C7_WitnessFused ==
    /\ iter.live
    /\ iter.nones = 2
    /\ iter.yielded # << >>

InitPrecondition(a, index, v, v_size) ==
    /\ Fits(v, v_size)
    /\ RangeValue(a, index * v_size, v_size) \in {Zero, v}

\* C9: under its precondition init_fragment(i, v, w) gives the same array as
\* set_fragment(i, v, w): the fragment reads v, fragments i-1 and i+1 and all
\* other bits are unchanged; a second init_fragment with the same v leaves
\* the fragment equal to v.
C9_InitAsSet ==
    (/\ pc = "done" /\ call.name = "init_fragment"
     /\ ValidRange(pre, call.begin * call.len, call.len)
     /\ InitPrecondition(pre, call.begin, call.v, call.len))
        => /\ ~call.panicked
           /\ arr = set_fragment(pre, call.begin, call.v, call.len)
           /\ get_fragment(arr, call.begin, call.len) = call.v
           /\ SameOutside(pre, arr, call.begin * call.len, call.len)
           /\ call.begin >= 1
                => get_fragment(arr, call.begin - 1, call.len)
                     = get_fragment(pre, call.begin - 1, call.len)
           /\ ValidRange(pre, (call.begin + 1) * call.len, call.len)
                => get_fragment(arr, call.begin + 1, call.len)
                     = get_fragment(pre, call.begin + 1, call.len)
           /\ init_fragment(arr, call.begin, call.v, call.len) = arr
           /\ get_fragment(init_fragment(arr, call.begin, call.v, call.len),
                           call.begin, call.len) = call.v

C9_Witness ==
    /\ Returned("init_fragment")
    /\ InitPrecondition(pre, call.begin, call.v, call.len)
    /\ Straddles(call.begin * call.len, call.len)
    /\ call.v # Zero
    /\ call.begin >= 1
    /\ get_fragment(pre, call.begin - 1, call.len) # Zero
    /\ arr # pre

C9_WitnessAlreadySet ==
    /\ Returned("init_fragment")
    /\ call.debug
    /\ call.v # Zero
    /\ RangeValue(pre, call.begin * call.len, call.len) = call.v
    /\ Fits(call.v, call.len)

C10_WitnessBits ==
    /\ Returned("with_filled_bits")
    /\ call.count = 65
    /\ Len(arr) = 2

ChangedBits(a, b) == {i \in 0..(NBits(a) - 1) : Bit(a, i) # Bit(b, i)}

\* C13 as stated: when xor_bits(begin, v, len) gets a v with bits at or above
\* len, a bit outside [begin, begin+len) changes only in the second word
\* arr[begin/64 + 1] of a straddling range; no bit of arr[begin/64] outside
\* the range changes and a range within one word changes nothing outside it.
C13_LeakOnlyInSecondWord ==
    (Returned("xor_bits") /\ ~Fits(call.v, call.len))
        => \A i \in ChangedBits(pre, arr) :
                \/ (call.begin <= i /\ i < call.begin + call.len)
                \/ /\ Straddles(call.begin, call.len)
                   /\ i \div 64 = (call.begin \div 64) + 1

\* C13, amended: xor_bits(begin, v, len) changes exactly the bits begin + k
\* with k in v that lie in arr[begin/64], or in arr[begin/64 + 1] when the
\* range straddles. So with a v wider than len the bits of arr[begin/64]
\* above a range within one word change too; for a straddling range only
\* bits of the second word change outside the range; no bit below begin and
\* no other word ever changes.
C13_XorBitsLeak ==
    Returned("xor_bits")
        => LET last == (call.begin \div 64)
                         + (IF Straddles(call.begin, call.len) THEN 1 ELSE 0)
           IN  /\ ChangedBits(pre, arr)
                    = {i \in 0..(NBits(pre) - 1) :
                         /\ i >= call.begin
                         /\ (i - call.begin) \in call.v
                         /\ i \div 64 <= last}
               /\ Straddles(call.begin, call.len)
                    => \A i \in ChangedBits(pre, arr) :
                         i \div 64 = call.begin \div 64
                            => i < call.begin + call.len

C13_Witness ==
    /\ Returned("xor_bits")
    /\ ~Fits(call.v, call.len)
    /\ ~Straddles(call.begin, call.len)
    /\ call.len >= 1
    /\ \E i \in ChangedBits(pre, arr) :
            /\ i >= call.begin + call.len
            /\ i \div 64 = call.begin \div 64
    /\ \E i \in 0..(NBits(pre) - 1) :
            /\ i >= call.begin + call.len
            /\ i \div 64 = call.begin \div 64
            /\ i \notin ChangedBits(pre, arr)

C13_WitnessStraddling ==
    /\ Returned("xor_bits")
    /\ ~Fits(call.v, call.len)
    /\ Straddles(call.begin, call.len)
    /\ \E i \in ChangedBits(pre, arr) : i >= call.begin + call.len

\* a finished call of get_bits, set_bits or xor_bits, aborted or not
RangeCall == pc = "done" /\ call.name \in {"get_bits", "set_bits", "xor_bits"}

\* C15 as stated: for len in 0..64, get_bits, set_bits and xor_bits abort
\* exactly when begin + len > 64 * word_count; a zero-length range at
\* begin = 64 * word_count, and any such call on the empty array, completes.
C15_AbortsIffExceeds ==
    RangeCall => (call.panicked <=> call.begin + call.len > NBits(pre))

\* C15, amended: get_bits, set_bits and xor_bits complete exactly when
\* begin < 64 * word_count and begin + len <= 64 * word_count. Every range
\* that exceeds the array aborts, and so does a zero-length range at
\* begin = 64 * word_count and every call on the empty array. An aborted
\* call leaves the array as it was.
C15_AbortsIffOutside ==
    RangeCall
        => /\ call.panicked <=> ~ValidRange(pre, call.begin, call.len)
           /\ call.begin + call.len > NBits(pre) => call.panicked
           /\ (pre = with_zeroed_bits(0) \/ call.begin = NBits(pre)) => call.panicked
           /\ call.panicked => arr = pre

C15_Witness ==
    /\ RangeCall
    /\ Len(pre) >= 1
    /\ call.len = 0
    /\ call.begin = NBits(pre)
    /\ call.panicked

C15_WitnessEmpty ==
    /\ RangeCall
    /\ pre = with_zeroed_bits(0)
    /\ call.begin = 0
    /\ call.len = 0
    /\ call.panicked

C15_WitnessCompletes ==
    /\ RangeCall
    /\ call.begin + call.len = NBits(pre)
    /\ call.len = 64
    /\ ~call.panicked

\* the words a call changed
ModifiedWords(a, b) == {k \in 0..(Len(a) - 1) : Word(a, k) # Word(b, k)}

\* the words that hold the bits begin .. begin+len-1; for an empty range the
\* word of begin
RangeWords(begin, len) ==
    {k \in 0..(MaxWords + 2) :
        /\ begin \div 64 <= k
        /\ k <= (IF len = 0 THEN begin ELSE begin + len - 1) \div 64}

BitCalls == {"set_bit", "clear_bit"}
BitsCalls == {"set_bits", "xor_bits", "conditionally_change_bits", "conditionally_copy_bits"}
FragmentCalls == {"init_fragment", "set_fragment", "xor_fragment",
                  "conditionally_change_fragment", "conditionally_copy_fragment"}
MutatingCalls == BitCalls \cup BitsCalls \cup FragmentCalls \cup {"swap_fragments"}

\* the word of the first bit the finished call was given
call_begin_word ==
    (IF call.name \in BitCalls \cup BitsCalls THEN call.begin
     ELSE call.begin * call.len) \div 64

\* the words of the ranges the finished call was given
CallWords ==
    IF call.name \in BitCalls THEN RangeWords(call.begin, 1)
    ELSE IF call.name \in BitsCalls THEN RangeWords(call.begin, call.len)
    ELSE IF call.name \in FragmentCalls THEN RangeWords(call.begin * call.len, call.len)
    ELSE RangeWords(call.begin * call.len, call.len)
            \cup RangeWords(call.index2 * call.len, call.len)

\* C14 as stated: no mutating operation, swap_fragments included, modifies
\* more than two words, and the words it modifies are neighbours s and s+1.
C14_AtMostTwoAdjacentWords ==
    (pc = "done" /\ call.name \in MutatingCalls)
        => \E s \in 0..Len(arr) : ModifiedWords(pre, arr) \subseteq {s, s + 1}

\* C14, amended: every mutating operation modifies only words that hold bits
\* of the ranges it is given (for an empty range the word of begin); that is
\* at most two neighbouring words for every operation but swap_fragments,
\* which modifies the words of its two fragments: up to four words, and words
\* that are not neighbours. So when the array is cut at any word p and the
\* call's ranges lie on one side, no word on the other side is written.
C14_ModifiesOwnWords ==
    (pc = "done" /\ call.name \in MutatingCalls)
        => /\ Len(arr) = Len(pre)
           /\ ModifiedWords(pre, arr) \subseteq CallWords
           /\ call.name # "swap_fragments"
                => /\ Cardinality(CallWords) <= 2
                   /\ ModifiedWords(pre, arr)
                        \subseteq {call_begin_word, call_begin_word + 1}
           /\ call.name = "swap_fragments" => Cardinality(CallWords) <= 4
           /\ \A p \in 0..Len(arr) :
                /\ (\A k \in CallWords : k < p)
                    => \A k \in p..(Len(arr) - 1) : Word(arr, k) = Word(pre, k)
                /\ (\A k \in CallWords : k >= p)
                    => \A k \in 0..(p - 1) : Word(arr, k) = Word(pre, k)

\* swap_fragments exchanged two fragments whose words are not neighbours
C14_Witness ==
    /\ Returned("swap_fragments")
    /\ \E k \in ModifiedWords(pre, arr) : \E j \in ModifiedWords(pre, arr) : j > k + 1

\* swap_fragments changed four words
C14_WitnessFour ==
    /\ Returned("swap_fragments")
    /\ Cardinality(ModifiedWords(pre, arr)) = 4

\* another operation changed two words
C14_WitnessTwo ==
    /\ pc = "done"
    /\ call.name \in MutatingCalls \ {"swap_fragments"}
    /\ Cardinality(ModifiedWords(pre, arr)) = 2

\* the calls of the scenario, as log records them
IsClearBit73(c) == c.name = "clear_bit" /\ c.begin = 73 /\ ~c.panicked
IsSetBit73(c) == c.name = "set_bit" /\ c.begin = 73 /\ ~c.panicked
IsXorBits72(c) ==
    c.name = "xor_bits" /\ c.begin = 72 /\ c.v = {0, 1} /\ c.len = 3 /\ ~c.panicked

\* the 2-word array of ones (the runs of SpecBits start from arrays of ones)
\* after the calls log lists
Fresh == Len(arr) = 2 /\ log = << >>
Cleared == Len(arr) = 2 /\ Len(log) = 1 /\ IsClearBit73(log[1])
ClearedXored ==
    Len(arr) = 2 /\ Len(log) = 2 /\ IsClearBit73(log[1]) /\ IsXorBits72(log[2])
ClearedSetXored ==
    /\ Len(arr) = 2 /\ Len(log) = 3
    /\ IsClearBit73(log[1]) /\ IsSetBit73(log[2]) /\ IsXorBits72(log[3])

\* what the scenario says of the array before xor_bits
ScenarioBeforeXor ==
    /\ Fresh => arr = <<Ones, Ones>> /\ count_bit_ones(arr) = 128
    /\ Cleared
        => /\ count_bit_ones(arr) = 127
           /\ ~get_bit(arr, 73)
           /\ get_bit(arr, 72)
           /\ get_bit(arr, 74)

\* C12 as stated: on the 2-word array of ones count_bit_ones is 128; after
\* clear_bit(73) it is 127, bit 73 is clear and bits 72 and 74 are set; and
\* xor_bits(72, 0b011, 3) right after that leaves bits 72 and 73 clear and
\* bit 74 set.
C12_ScenarioAsStated ==
    /\ ScenarioBeforeXor
    /\ ClearedXored => ~get_bit(arr, 72) /\ ~get_bit(arr, 73) /\ get_bit(arr, 74)

\* C12, amended: on the 2-word array of ones count_bit_ones is 128; after
\* clear_bit(73) it is 127, bit 73 is clear and bits 72 and 74 are set;
\* xor_bits(72, 0b011, 3) right after that clears bit 72 and sets bit 73
\* again (bit 74 stays set, 127 ones); it leaves bits 72 and 73 clear and
\* bit 74 set when set_bit(73) comes between clear_bit and xor_bits.
C12_Scenario ==
    /\ ScenarioBeforeXor
    /\ ClearedXored
        => /\ ~get_bit(arr, 72) /\ get_bit(arr, 73) /\ get_bit(arr, 74)
           /\ count_bit_ones(arr) = 127
    /\ ClearedSetXored
        => /\ ~get_bit(arr, 72) /\ ~get_bit(arr, 73) /\ get_bit(arr, 74)
           /\ count_bit_ones(arr) = 126

C12_Witness == ClearedXored /\ get_bit(arr, 73) /\ ~get_bit(pre, 73)

C12_WitnessTest == ClearedSetXored /\ ~get_bit(arr, 73)

====
